---- MODULE Spec2Model ----
(***************************************************************************)
(* Model of csv_parser_service.py: the tail-and-convert loop               *)
(* (tail_csv_and_convert), the retention pruner (prune_file) and the       *)
(* external writer that appends to the source CSV file.                    *)
(*                                                                         *)
(* Time is in seconds.  A CSV data row is [id, ts, fps]: id is the row's   *)
(* identity (the order in which the writer appended it), ts the text of    *)
(* its timestamp field, fps the text of one allowlisted numeric field.     *)
(* A JSONL line is [id, json, ts, fps]; id 0 marks a line that was in the  *)
(* destination before the loop started.                                    *)
(***************************************************************************)
EXTENDS Integers, Sequences, FiniteSets, TLC

\* ---------------------------------------------------------------- bounds
\* Rows the external writer appends in one run.
MaxRows == 2
\* Cycles of the loop after the first one (each ends with one sleep).
MaxSleeps == 3
\* Tail passes that abort with an I/O error.
MaxIOFailures == 1
\* Data rows of the file prune_file is applied to on its own.
MaxPruneRows == 2

\* ------------------------------------------------------- program constants
SecondsPerDay == 24 * 60 * 60
\* --interval, the poll interval: three hours, so that the prune timer
\* (strictly more than six hours) elapses on every third cycle
interval == 3 * 60 * 60
\* cleanup_interval_seconds = 6 * 60 * 60
cleanup_interval_seconds == 6 * 60 * 60
\* --retention-days: default 7, 0 disables pruning
RetentionChoices == {0, 1, 7}
\* time.time() when the loop starts: far more than a cleanup interval after
\* the epoch, which is the initial last_cleanup_time
InitialTime == 20 * SecondsPerDay

VARIABLES
    now,                    \* wall clock, time.time()
    retention_days,         \* configuration
    src_state,              \* "absent" | "empty" (no header) | "table"
    src_rows,               \* data rows of the source file, in file order
    src_tmp,                \* input_file + ".tmp": [exists, rows]
    dst_state,              \* "absent" | "present"
    dst_lines,              \* lines of the destination file
    dst_tmp,                \* output_file + ".tmp": [exists, rows]
    processed_line_count,   \* the cursor
    last_cleanup_time,
    new_csv_line_count,     \* result of the last source prune: [ok, count]
    pc,                     \* position of the loop
    next_id,                \* rows appended by the writer so far
    converted,              \* history: id -> times converted and appended
    prune_orig,             \* history: rows the source prune in progress read
    last_pass,              \* history: the last tail pass that read the source
    src_unchanged,          \* history: source content as that pass read it
    io_failures             \* tail passes aborted so far

vars == << now, retention_days, src_state, src_rows, src_tmp, dst_state,
           dst_lines, dst_tmp, processed_line_count, last_cleanup_time,
           new_csv_line_count, pc, next_id, converted, prune_orig, last_pass,
           src_unchanged, io_failures >>

\* ------------------------------------------------------------ timestamps
\* Text of a timestamp field.  kind "iso" is ISO-8601 text with wall-clock
\* seconds `wall` and zone suffix `zone` ("" = unzoned, "Z", "+02:00");
\* kind "none" is a missing field (None), "empty" is "", "bad" is text that
\* datetime.fromisoformat rejects, "hdr" is the literal text 'timestamp'.
Iso(wall, zone) == [kind |-> "iso", wall |-> wall, zone |-> zone]
TsNone == [kind |-> "none", wall |-> 0, zone |-> ""]
TsEmpty == [kind |-> "empty", wall |-> 0, zone |-> ""]
TsBad == [kind |-> "bad", wall |-> 0, zone |-> ""]
TsHeader == [kind |-> "hdr", wall |-> 0, zone |-> ""]

\* `not timestamp_str`: None and "" are falsy
Falsy(ts) == ts.kind \in {"none", "empty"}

\* datetime.fromisoformat(ts.replace('Z', '+00:00')) succeeds
Parses(ts) == ts.kind = "iso"

\* utcoffset of the parsed value; an unzoned value is given tzinfo=utc
ZoneOffset(zone) == IF zone = "+02:00" THEN 2 * 60 * 60 ELSE 0

\* the instant (seconds since the epoch, UTC) the parsed timestamp denotes
Instant(ts) == ts.wall - ZoneOffset(ts.zone)

\* strftime('%Y-%m-%dT%H:%M:%S.%fZ'): the wall-clock fields of the parsed
\* value followed by a literal Z
Render(ts) == Iso(ts.wall, "Z")

\* mutant: the text of a value that is no number is passed on
FloatOf_text_kept(text) == IF text = "30" THEN "30.0" ELSE text

\* float(value) for an allowlisted numeric field; None on ValueError
FloatOf(text) == IF text = "30" THEN "30.0" ELSE "null"

\* --------------------------------------------------------------- helpers
Range(s) == {s[i] : i \in 1..Len(s)}

\* itertools.islice(reader, n, None)
Islice(s, n) == IF n >= Len(s) THEN << >> ELSE SubSeq(s, n + 1, Len(s))

Prefix(s, k) == IF k = 0 THEN << >> ELSE SubSeq(s, 1, k)

NoTmp == [exists |-> FALSE, rows |-> << >>]
NoResult == [ok |-> FALSE, count |-> 0]
Kept(n) == [ok |-> TRUE, count |-> n]

\* ------------------------------------------------------------ prune_file
cutoff_date == now - retention_days * SecondsPerDay

\* mutant: a row whose timestamp does not parse is skipped, as in the tail
KeepCsvRow_unparsable_dropped(row) ==
    IF row.ts.kind = "hdr" THEN FALSE
    ELSE IF Falsy(row.ts) THEN TRUE
    ELSE IF ~Parses(row.ts) THEN FALSE
    ELSE Instant(row.ts) >= cutoff_date

\* mutant: `>` written for `>=` in the comparison with cutoff_date
KeepCsvRow_strict(row) ==
    IF row.ts.kind = "hdr" THEN FALSE
    ELSE IF Falsy(row.ts) THEN TRUE
    ELSE IF ~Parses(row.ts) THEN TRUE
    ELSE Instant(row.ts) > cutoff_date

\* csv branch: the row is written to the temporary file
KeepCsvRow(row) ==
    IF row.ts.kind = "hdr" THEN FALSE
    ELSE IF Falsy(row.ts) THEN TRUE
    ELSE IF ~Parses(row.ts) THEN TRUE
    ELSE Instant(row.ts) >= cutoff_date

\* jsonl branch: the line is written to the temporary file
KeepJsonLine(line) ==
    IF ~line.json THEN TRUE
    ELSE IF Falsy(line.ts) THEN TRUE
    ELSE IF ~Parses(line.ts) THEN TRUE
    ELSE Instant(line.ts) >= cutoff_date

CsvKeptRows(rows) == SelectSeq(rows, KeepCsvRow)
JsonKeptLines(lines) == SelectSeq(lines, KeepJsonLine)

\* mutant: prune_file returns initial_line_count
kept_line_count_initial(tmp_rows) == Len(prune_orig)

\* what prune_file returns on the success path
kept_line_count(tmp_rows) == Len(tmp_rows)

\* mutant: the failure path does not remove the temporary file
TmpAfterFailure_left_behind(tmp) == tmp

\* what the failure path of prune_file leaves of the temporary file
TmpAfterFailure(tmp) == NoTmp

\* ------------------------------------------------- tail_csv_and_convert
\* the row passes `'timestamp' in row and row['timestamp']` and parses
Convertible(row) == ~Falsy(row.ts) /\ Parses(row.ts)

\* processed_row for one source row
Convert(row) == [id |-> row.id, json |-> TRUE,
                 ts |-> Render(row.ts), fps |-> FloatOf(row.fps)]

\* rows the pass reads: the data rows after the first processed_line_count
new_rows_in_memory == Islice(src_rows, processed_line_count)

\* lines a pass over `rows` writes, in order: the rows without a usable
\* timestamp are skipped, the others converted
RECURSIVE Emitted(_)
Emitted(rows) ==
    IF rows = << >> THEN << >>
    ELSE IF Convertible(Head(rows))
         THEN << Convert(Head(rows)) >> \o Emitted(Tail(rows))
         ELSE Emitted(Tail(rows))

\* mutant: the cursor is not advanced after a batch
AdvanceCursor_forgotten(count, new_lines_found) == count

\* mutant: `=` written for `+=`
AdvanceCursor_assigned(count, new_lines_found) == new_lines_found

\* processed_line_count += new_lines_found
AdvanceCursor(count, new_lines_found) == count + new_lines_found

\* mutant: the cursor is only ever raised by a prune
ResetCursor_never_lowered(count, result) ==
    IF result.ok /\ result.count > count THEN result.count ELSE count

\* the cursor after a prune round whose source prune returned `result`
ResetCursor(count, result) == IF result.ok THEN result.count ELSE count

\* mutant: `>=` written for `>` in the test of the prune timer
CleanupDue_at_interval ==
    retention_days > 0 /\ now - last_cleanup_time >= cleanup_interval_seconds

\* the prune timer has elapsed
CleanupDue ==
    retention_days > 0 /\ now - last_cleanup_time > cleanup_interval_seconds

\* mutant: the source is pruned first
PruneRoundStart_source_first == "prune_src"

\* line 170 is the first statement of a prune round
PruneRoundStart == "prune_dst"

\* mutant: the round is given up when the destination prune returns None
AfterDstPrune_given_up(failed) == IF failed THEN "tail" ELSE "prune_src"

\* line 170 discards what prune_file returns: line 172 runs next
AfterDstPrune(failed) == "prune_src"

\* mutant: the cursor is set from the destination prune's kept count
CursorAfterDstPrune_resync(count, dst_kept) == dst_kept

\* line 170 does not assign the cursor
CursorAfterDstPrune(count, dst_kept) == count

\* mutant: a file without header is reported as a failure
HeaderlessResult_none == NoResult

\* lines 68-71: no fieldnames, the temporary file is removed, return 0
HeaderlessResult == Kept(0)

\* mutant: the output file is opened before the input file is looked for
DstAfterMissingSource_created(state) == "present"

\* lines 186-189: the output file is not opened when the input is missing
DstAfterMissingSource(state) == state

RECURSIVE CountIds(_, _)
CountIds(lines, id) ==
    IF lines = << >> THEN 0
    ELSE (IF Head(lines).id = id THEN 1 ELSE 0) + CountIds(Tail(lines), id)

Ids == 1..(MaxRows + 1)

\* ------------------------------------------------------- external writer
WriterRows ==
    { [ts |-> Iso(InitialTime, ""), fps |-> "30"],
      [ts |-> Iso(InitialTime - SecondsPerDay, "Z"), fps |-> "abc"],
      [ts |-> Iso(InitialTime - 10 * SecondsPerDay, ""), fps |-> "30"],
      [ts |-> TsEmpty, fps |-> "30"],
      [ts |-> TsBad, fps |-> "30"],
      [ts |-> TsHeader, fps |-> "fps"] }

\* lines a destination file left by an earlier run or another tool may hold
PreExistingLines ==
    << [id |-> 0, json |-> FALSE, ts |-> TsNone, fps |-> "null"],
       [id |-> 0, json |-> TRUE, ts |-> TsNone, fps |-> "30.0"],
       [id |-> 0, json |-> TRUE,
        ts |-> Iso(InitialTime - 10 * SecondsPerDay, "Z"), fps |-> "30.0"] >>

\* a tail pass that read the source: the cursor it started from, the cursor
\* it left, the lines it wrote, whether it completed, and whether it re-ran
\* the pass before it (same source content, the cursor that pass left)
NoPass == [ran |-> FALSE, from |-> 0, cursor |-> 0, emitted |-> 0,
           ok |-> FALSE, rerun |-> FALSE]

\* the pass about to run repeats the last completed pass
Rerun == last_pass.ok /\ src_unchanged /\ processed_line_count = last_pass.cursor

Init ==
    /\ now = InitialTime
    /\ retention_days \in RetentionChoices
    /\ src_state \in {"absent", "empty", "table"}
    /\ src_rows = << >>
    /\ src_tmp = NoTmp
    /\ \/ dst_state = "absent" /\ dst_lines = << >>
       \/ dst_state = "present" /\ dst_lines = PreExistingLines
    /\ dst_tmp = NoTmp
    /\ processed_line_count = 0
    /\ last_cleanup_time = 0
    /\ new_csv_line_count = NoResult
    /\ pc = "loop"
    /\ next_id = 0
    /\ converted = [i \in Ids |-> 0]
    /\ prune_orig = << >>
    /\ last_pass = NoPass
    /\ src_unchanged = FALSE
    /\ io_failures = 0

LoopVars == << processed_line_count, last_cleanup_time, new_csv_line_count, pc >>
DstVars == << dst_state, dst_lines, dst_tmp >>
History == << converted, prune_orig, last_pass, src_unchanged, io_failures >>

\* the writer creates the source file
WriterCreate ==
    /\ src_state = "absent"
    /\ src_state' = "empty"
    /\ UNCHANGED << now, retention_days, src_rows, src_tmp, next_id >>
    /\ UNCHANGED << LoopVars, DstVars, History >>

\* the writer writes the header line
WriterHeader ==
    /\ src_state = "empty"
    /\ src_state' = "table"
    /\ UNCHANGED << now, retention_days, src_rows, src_tmp, next_id >>
    /\ UNCHANGED << LoopVars, DstVars, History >>

\* the writer appends one data row
WriterAppend ==
    /\ src_state = "table"
    /\ next_id < MaxRows
    /\ \E r \in WriterRows :
         src_rows' = Append(src_rows, [id |-> next_id + 1, ts |-> r.ts, fps |-> r.fps])
    /\ next_id' = next_id + 1
    /\ src_unchanged' = FALSE
    /\ UNCHANGED << now, retention_days, src_state, src_tmp >>
    /\ UNCHANGED << LoopVars, DstVars, converted, prune_orig, last_pass,
                    io_failures >>

\* ------------------------------------------------------------- the loop
\* line 169: the test that starts a prune round
CheckTimer ==
    /\ pc = "loop"
    /\ pc' = IF CleanupDue THEN PruneRoundStart ELSE "tail"
    /\ UNCHANGED << now, retention_days, src_state, src_rows, src_tmp, next_id,
                    processed_line_count, last_cleanup_time, new_csv_line_count >>
    /\ UNCHANGED << DstVars, History >>

\* line 170, prune_file(output_file, ..., 'jsonl') up to the end of the
\* copy loop: missing file returns None; otherwise the kept lines are in
\* the temporary file
PruneDstBegin ==
    /\ pc = "prune_dst"
    /\ \/ /\ dst_state = "absent"
          /\ pc' = AfterDstPrune(TRUE)
          /\ UNCHANGED dst_tmp
       \/ /\ dst_state = "present"
          /\ dst_tmp' = [exists |-> TRUE, rows |-> JsonKeptLines(dst_lines)]
          /\ pc' = "replace_dst"
    /\ UNCHANGED << now, retention_days, src_state, src_rows, src_tmp, next_id,
                    dst_state, dst_lines, processed_line_count,
                    last_cleanup_time, new_csv_line_count, History >>

\* lines 130-140 for the destination: os.replace, or an exception that
\* removes the temporary file
PruneDstFinish ==
    /\ pc = "replace_dst"
    /\ \/ /\ dst_lines' = dst_tmp.rows
          /\ dst_tmp' = NoTmp
          /\ processed_line_count' =
                 CursorAfterDstPrune(processed_line_count,
                                     kept_line_count(dst_tmp.rows))
          /\ pc' = AfterDstPrune(FALSE)
       \/ /\ UNCHANGED << dst_lines, processed_line_count >>
          /\ dst_tmp' = TmpAfterFailure(dst_tmp)
          /\ pc' = AfterDstPrune(TRUE)
    /\ UNCHANGED << now, retention_days, src_state, src_rows, src_tmp, next_id,
                    dst_state, last_cleanup_time, new_csv_line_count, History >>

\* lines 172-178 once prune_file(input_file) has returned `result`
AfterSrcPrune(result) ==
    /\ new_csv_line_count' = result
    /\ processed_line_count' = ResetCursor(processed_line_count, result)
    /\ last_cleanup_time' = now
    /\ pc' = "tail"

\* line 172, prune_file(input_file, ..., 'csv') up to the end of the copy
\* loop: missing file returns None, a file without header returns 0,
\* otherwise the kept rows are in the temporary file
PruneSrcBegin ==
    /\ pc = "prune_src"
    /\ \/ /\ src_state = "absent"
          /\ AfterSrcPrune(NoResult)
          /\ UNCHANGED << src_tmp, prune_orig >>
       \/ /\ src_state = "empty"
          /\ AfterSrcPrune(HeaderlessResult)
          /\ UNCHANGED << src_tmp, prune_orig >>
       \/ /\ src_state = "table"
          /\ src_tmp' = [exists |-> TRUE, rows |-> CsvKeptRows(src_rows)]
          /\ prune_orig' = src_rows
          /\ pc' = "replace_src"
          /\ UNCHANGED << processed_line_count, last_cleanup_time,
                          new_csv_line_count >>
    /\ UNCHANGED << now, retention_days, src_state, src_rows, next_id,
                    converted, last_pass, src_unchanged, io_failures >>
    /\ UNCHANGED DstVars

\* lines 130-140 for the source, then lines 174-178: os.replace and the
\* kept count, or an exception that removes the temporary file and None
PruneSrcFinish ==
    /\ pc = "replace_src"
    /\ \/ /\ src_rows' = src_tmp.rows
          /\ src_tmp' = NoTmp
          /\ AfterSrcPrune(Kept(kept_line_count(src_tmp.rows)))
       \/ /\ src_tmp' = TmpAfterFailure(src_tmp)
          /\ AfterSrcPrune(NoResult)
          /\ UNCHANGED src_rows
    /\ src_unchanged' = (src_unchanged /\ src_rows' = src_rows)
    /\ prune_orig' = << >>
    /\ UNCHANGED << now, retention_days, src_state, next_id, converted,
                    last_pass, io_failures >>
    /\ UNCHANGED DstVars

\* converted[id] after the lines `lines` were appended
Count(lines) == [i \in Ids |-> converted[i] + CountIds(lines, i)]

\* lines 179-230: one tail pass
TailPass ==
    /\ pc = "tail"
    /\ pc' = "sleep"
    /\ \/ \* FileNotFoundError: warn, sleep, continue
          /\ src_state = "absent"
          /\ dst_state' = DstAfterMissingSource(dst_state)
          /\ UNCHANGED << dst_lines, processed_line_count,
                          converted, last_pass, src_unchanged, io_failures >>
       \/ \* the pass completes
          /\ src_state # "absent"
          /\ LET rows == new_rows_in_memory
                 out == Emitted(rows)
             IN /\ dst_lines' = dst_lines \o out
                /\ dst_state' = IF rows # << >> THEN "present" ELSE dst_state
                /\ processed_line_count' =
                       AdvanceCursor(processed_line_count, Len(out))
                /\ converted' = Count(out)
                /\ last_pass' = [ran |-> TRUE, from |-> processed_line_count,
                                 cursor |-> processed_line_count',
                                 emitted |-> Len(out), ok |-> TRUE,
                                 rerun |-> Rerun]
                /\ src_unchanged' = TRUE
                /\ UNCHANGED io_failures
       \/ \* an I/O error aborts the pass: while the source is read (the
          \* output file is not opened), or in the batch after the output
          \* file was opened and k lines were written
          /\ src_state # "absent"
          /\ io_failures < MaxIOFailures
          /\ LET rows == new_rows_in_memory
                 out == Emitted(rows)
             IN \E k \in 0..Len(out), opened \in BOOLEAN :
                  /\ opened => rows # << >>
                  /\ k > 0 => opened
                  /\ dst_lines' = dst_lines \o Prefix(out, k)
                  /\ dst_state' = IF opened THEN "present" ELSE dst_state
                  /\ converted' = Count(Prefix(out, k))
                  /\ last_pass' = [ran |-> TRUE, from |-> processed_line_count,
                                   cursor |-> processed_line_count,
                                   emitted |-> k, ok |-> FALSE,
                                   rerun |-> Rerun]
          /\ src_unchanged' = TRUE
          /\ io_failures' = io_failures + 1
          /\ UNCHANGED processed_line_count
    /\ UNCHANGED << now, retention_days, src_state, src_rows, src_tmp, next_id,
                    dst_tmp, last_cleanup_time, new_csv_line_count, prune_orig >>

\* the last clock value the model lets the loop reach
MaxTime == InitialTime + MaxSleeps * interval

\* line 230 (and line 188): time.sleep(interval)
Sleep ==
    /\ pc = "sleep"
    /\ now + interval <= MaxTime
    /\ now' = now + interval
    /\ pc' = "loop"
    /\ UNCHANGED << retention_days, src_state, src_rows, src_tmp, next_id,
                    processed_line_count, last_cleanup_time, new_csv_line_count >>
    /\ UNCHANGED << DstVars, History >>

Next ==
    \/ WriterCreate
    \/ WriterHeader
    \/ WriterAppend
    \/ CheckTimer
    \/ PruneDstBegin
    \/ PruneDstFinish
    \/ PruneSrcBegin
    \/ PruneSrcFinish
    \/ TailPass
    \/ Sleep

Spec == Init /\ [][Next]_vars

\* --------------------------------------------- prune_file on its own
\* timestamp fields of the rows prune_file is applied to: now, one poll interval
\* before now, exactly one day before now (Z), the same instant written
\* with a +02:00 offset, an instant one hour older whose wall-clock text is
\* later than the cutoff, and fields that do not parse
PruneTimestamps ==
    { Iso(InitialTime, ""),
      Iso(InitialTime - interval, ""),
      Iso(InitialTime - SecondsPerDay, "Z"),
      Iso(InitialTime - SecondsPerDay + 2 * 60 * 60, "+02:00"),
      Iso(InitialTime - SecondsPerDay + 60 * 60, "+02:00"),
      TsEmpty,
      TsBad }

\* the files of MaxPruneRows rows or fewer, the rows numbered in file order
RECURSIVE PruneFiles(_)
PruneFiles(n) ==
    IF n = 0 THEN { << >> }
    ELSE PruneFiles(n - 1) \cup
         { Append(f, [id |-> n, ts |-> t, fps |-> "30"]) :
             f \in {g \in PruneFiles(n - 1) : Len(g) = n - 1},
             t \in PruneTimestamps }

\* prune_file(output_file, h, 'jsonl') then prune_file(input_file, h, 'csv')
\* for any horizon h, 0 included, on any such file
PruneInit ==
    /\ now = InitialTime
    /\ retention_days \in RetentionChoices
    /\ \/ src_state \in {"absent", "empty"} /\ src_rows = << >>
       \/ src_state = "table" /\ src_rows \in PruneFiles(MaxPruneRows)
    /\ src_tmp = NoTmp
    /\ \/ dst_state = "absent" /\ dst_lines = << >>
       \/ dst_state = "present" /\ dst_lines = PreExistingLines
       \/ /\ dst_state = "present"
          /\ dst_lines = << Convert([id |-> 0, ts |-> Iso(InitialTime, ""), fps |-> "30"]),
                            Convert([id |-> 0, ts |-> Iso(InitialTime - interval, ""), fps |-> "30"]) >>
    /\ dst_tmp = NoTmp
    /\ processed_line_count = 0
    /\ last_cleanup_time = 0
    /\ new_csv_line_count = NoResult
    /\ pc = "prune_dst"
    /\ next_id = Len(src_rows)
    /\ converted = [i \in Ids |-> 0]
    /\ prune_orig = << >>
    /\ last_pass = NoPass
    /\ src_unchanged = FALSE
    /\ io_failures = 0

PruneNext ==
    \/ PruneDstBegin
    \/ PruneDstFinish
    \/ PruneSrcBegin
    \/ PruneSrcFinish

PruneSpec == PruneInit /\ [][PruneNext]_vars

TypeOK ==
    /\ processed_line_count \in Nat
    /\ pc \in {"loop", "prune_dst", "replace_dst", "prune_src", "replace_src",
               "tail", "sleep"}
    /\ src_state \in {"absent", "empty", "table"}

\* ------------------------------------------------------------ properties
TailReads == pc = "tail" /\ pc' = "sleep" /\ src_state # "absent"
SrcPruneReturns == pc \in {"prune_src", "replace_src"} /\ pc' = "tail"
SrcReplaceStep == pc = "replace_src" /\ pc' = "tail"
DstReplaceStep == pc = "replace_dst" /\ pc' = "prune_src"
AllParseable(rows) == \A i \in 1..Len(rows) : Convertible(rows[i])

\* C1: in every reachable state the cursor is a non-negative integer that
\* does not exceed the number of data rows currently in the source file.
C1_CursorWithinSource ==
    /\ processed_line_count \in Nat
    /\ processed_line_count <= Len(src_rows)

\* a prune has reset the cursor, a later pass has advanced it, and it sits
\* at the end of a source that holds rows
C1_Witness ==
    /\ pc = "sleep"
    /\ new_csv_line_count.ok
    /\ last_pass.ok /\ last_pass.emitted > 0
    /\ processed_line_count = Len(src_rows)
    /\ processed_line_count > new_csv_line_count.count

\* C2: the step that ends a prune round leaves the cursor equal to the kept
\* count the source prune returned when it succeeded (the number of rows it
\* wrote to the temporary file, also when that is less than the cursor was),
\* and leaves the cursor as it was when the source prune returned None.
C2_CursorAfterPrune ==
    [][SrcPruneReturns =>
        /\ new_csv_line_count'.ok =>
             /\ processed_line_count' = new_csv_line_count'.count
             /\ pc = "replace_src" =>
                  new_csv_line_count'.count = Len(CsvKeptRows(prune_orig))
             /\ pc = "prune_src" => new_csv_line_count'.count = 0
        /\ ~new_csv_line_count'.ok =>
             processed_line_count' = processed_line_count]_vars

\* a successful source prune has just set the cursor below the value the
\* last tail pass left
C2_Witness ==
    /\ pc = "tail"
    /\ last_cleanup_time = now
    /\ new_csv_line_count.ok
    /\ processed_line_count = new_csv_line_count.count
    /\ last_pass.ok
    /\ processed_line_count < last_pass.cursor

\* C3 (as stated, in the form a finite run refutes): no row with a parseable
\* timestamp that is in the source lies behind the cursor without having
\* been converted.  A row behind the cursor is never read again (a pass
\* reads from the cursor on, and a prune sets the cursor to the number of
\* rows it kept), so such a row is never converted: it has been skipped.
C3_NoSkipping ==
    \A i \in 1..Len(src_rows) :
        (i <= processed_line_count /\ Convertible(src_rows[i]))
            => converted[src_rows[i].id] > 0

\* C4 (as stated, over the runs in which no tail pass was aborted): no
\* source row is converted and appended to the destination more than once.
C4_NoReprocessing ==
    io_failures = 0 => \A i \in Ids : converted[i] <= 1

\* C5 (as stated): a completed tail pass leaves cursor = old cursor + lines
\* appended, and a row the previous pass dropped is not read by the next
\* pass over the same source: it lies behind the cursor.
C5_DroppedNotReexamined ==
    [][TailReads =>
        /\ last_pass'.ok =>
             processed_line_count' = processed_line_count + last_pass'.emitted
        /\ (last_pass.ok /\ src_unchanged) =>
             \A i \in (last_pass.from + 1)..Len(src_rows) :
                 ~Convertible(src_rows[i]) => i <= processed_line_count]_vars

\* C6: when every source row has a parseable timestamp, a tail pass that
\* re-runs the previous completed pass (same source content, the cursor that
\* pass left) writes nothing and leaves the cursor and destination unchanged.
C6_TailIdempotent ==
    [][(TailReads /\ Rerun /\ AllParseable(src_rows)) =>
        /\ dst_lines' = dst_lines
        /\ dst_state' = dst_state
        /\ processed_line_count' = processed_line_count
        /\ last_pass'.emitted = 0]_vars

\* a pass has re-run the pass before it over a source of parseable rows
C6_Witness ==
    /\ pc = "sleep"
    /\ last_pass.rerun
    /\ src_unchanged
    /\ Len(src_rows) > 0
    /\ AllParseable(src_rows)
    /\ \E i \in 1..Len(src_rows) : converted[src_rows[i].id] > 0

\* rows whose timestamp field is not empty among those after the first `from`
NonEmptyRead(rows, from) ==
    Cardinality({i \in (from + 1)..Len(rows) : rows[i].ts.kind # "empty"})

\* C7 (as stated): a source row whose timestamp field is empty is never
\* converted, and never makes the cursor increase: no step raises the cursor
\* by more than the number of rows after it whose timestamp is not empty.
C7_EmptyTimestampNeverCounts ==
    [][/\ \A i \in 1..Len(src_rows') :
              src_rows'[i].ts.kind = "empty" => converted'[src_rows'[i].id] = 0
       /\ processed_line_count' - processed_line_count
              <= NonEmptyRead(src_rows, processed_line_count)]_vars

\* What holds of the tail pass alone: a row with an empty timestamp is never
\* converted, every line this loop writes carries a rendered timestamp, and
\* a pass raises the cursor by no more than the rows it read whose timestamp
\* is not empty.
TailNeverCountsEmpty ==
    [][/\ \A i \in 1..Len(src_rows') :
              src_rows'[i].ts.kind = "empty" => converted'[src_rows'[i].id] = 0
       /\ \A k \in 1..Len(dst_lines') :
              dst_lines'[k].id = 0 \/ dst_lines'[k].ts.kind = "iso"
       /\ TailReads =>
              processed_line_count' - processed_line_count
                  <= NonEmptyRead(src_rows, processed_line_count)]_vars

\* C8: the cursor decreases only in the step in which a successful source
\* prune returns, and then to the kept count.
C8_CursorDecreasesOnlyOnPrune ==
    [][processed_line_count' < processed_line_count =>
        /\ SrcPruneReturns
        /\ new_csv_line_count'.ok
        /\ processed_line_count' = new_csv_line_count'.count]_vars

\* the cursor is below the value the last tail pass left
C8_Witness ==
    /\ new_csv_line_count.ok
    /\ last_pass.ran
    /\ processed_line_count < last_pass.cursor

\* C9: when prune_file fails after the temporary file was created, the
\* file is as it was, the temporary file is gone, None is returned and the
\* cursor is unchanged; a destination rewrite leaves either the original
\* or the complete pruned content, and no temporary file.
C9_PruneAtomic ==
    [][/\ (SrcReplaceStep /\ ~new_csv_line_count'.ok) =>
              /\ src_tmp.exists
              /\ src_rows' = src_rows /\ src_state' = src_state
              /\ ~src_tmp'.exists
              /\ processed_line_count' = processed_line_count
       /\ DstReplaceStep =>
              /\ dst_tmp.exists
              /\ dst_lines' \in {dst_lines, JsonKeptLines(dst_lines)}
              /\ ~dst_tmp'.exists
              /\ processed_line_count' = processed_line_count
       /\ (pc' \in {"tail", "sleep", "loop"}) =>
              (~src_tmp'.exists /\ ~dst_tmp'.exists)]_vars

\* a source prune has failed in this cycle on a table the loop had already
\* converted rows of
C9_Witness ==
    /\ pc = "tail"
    /\ last_cleanup_time = now
    /\ ~new_csv_line_count.ok
    /\ processed_line_count > 0
    /\ Len(src_rows) >= processed_line_count

\* C10 (as stated): a prune removes no record without a parseable timestamp.
C10_Original ==
    [][/\ SrcReplaceStep =>
              \A i \in 1..Len(prune_orig) :
                  ~Parses(prune_orig[i].ts) =>
                      prune_orig[i] \in Range(src_rows')
       /\ DstReplaceStep =>
              \A j \in 1..Len(dst_lines) :
                  (~dst_lines[j].json \/ ~Parses(dst_lines[j].ts)) =>
                      dst_lines[j] \in Range(dst_lines')]_vars

\* C10 (amended): a prune removes no record without a parseable timestamp,
\* except a CSV row whose timestamp field is the literal text 'timestamp'.
C10_FailOpen ==
    [][/\ SrcReplaceStep =>
              \A i \in 1..Len(prune_orig) :
                  (~Parses(prune_orig[i].ts) /\ prune_orig[i].ts.kind # "hdr") =>
                      prune_orig[i] \in Range(src_rows')
       /\ DstReplaceStep =>
              \A j \in 1..Len(dst_lines) :
                  (~dst_lines[j].json \/ ~Parses(dst_lines[j].ts)) =>
                      dst_lines[j] \in Range(dst_lines')]_vars

\* a successful source prune has just removed a row and kept a row whose
\* timestamp does not parse
C10_Witness ==
    /\ pc = "tail"
    /\ last_cleanup_time = now
    /\ new_csv_line_count.ok
    /\ new_csv_line_count.count = Len(src_rows)
    /\ Len(src_rows) < next_id
    /\ \E i \in 1..Len(src_rows) : src_rows[i].ts.kind \in {"empty", "bad"}

DstCopyStep == pc = "prune_dst" /\ pc' = "replace_dst"

\* C11: a successful source prune keeps a row with a valid timestamp if and
\* only if its instant (an unzoned timestamp taken as UTC, an offset
\* honoured) is >= now - horizon, and returns the number of data rows of
\* the rewritten file; the destination prune copies a line with a valid
\* timestamp under the same rule; with horizon 0 the rule is instant >= now.
C11_KeepRule ==
    [][/\ (SrcReplaceStep /\ new_csv_line_count'.ok) =>
              /\ \A i \in 1..Len(prune_orig) :
                     Parses(prune_orig[i].ts) =>
                         (prune_orig[i] \in Range(src_rows')
                            <=> Instant(prune_orig[i].ts)
                                  >= now - retention_days * SecondsPerDay)
              /\ retention_days = 0 =>
                     \A i \in 1..Len(prune_orig) :
                         Instant(prune_orig[i].ts) = now =>
                             prune_orig[i] \in Range(src_rows')
              /\ new_csv_line_count'.count = Len(src_rows')
       /\ DstCopyStep =>
              \A j \in 1..Len(dst_lines) :
                  (dst_lines[j].json /\ Parses(dst_lines[j].ts)) =>
                      (dst_lines[j] \in Range(dst_tmp'.rows)
                         <=> Instant(dst_lines[j].ts)
                               >= now - retention_days * SecondsPerDay)]_vars

\* a source prune with horizon 0 has kept the row stamped now and removed
\* the row stamped before now
C11_Witness ==
    /\ pc = "tail"
    /\ retention_days = 0
    /\ new_csv_line_count.ok
    /\ new_csv_line_count.count = Len(src_rows)
    /\ Len(src_rows) < next_id
    /\ \E i \in 1..Len(src_rows) :
           src_rows[i].ts.kind = "iso" /\ Instant(src_rows[i].ts) = now

\* the removable line of PreExistingLines, or any line the destination prune
\* does not copy, is still in the destination file
DstHoldsRemovable ==
    \E j \in 1..Len(dst_lines) : ~KeepJsonLine(dst_lines[j])

\* C12: in a cycle in which pruning runs the destination prune is over
\* before the source prune starts, and both are over (done or failed) before
\* the tail pass of that cycle opens a file: the source prune is entered
\* only from the destination prune, with no destination rewrite pending;
\* the tail pass runs with no temporary file of either prune; and the
\* destination file is changed by one step at a time, the prune's replace or
\* the tail pass's append.
C12_PruneBeforeTail ==
    [][/\ (pc = "loop" /\ pc' \notin {"loop", "tail"}) => pc' = "prune_dst"
       /\ (pc' = "prune_src" /\ pc # "prune_src") =>
              /\ pc \in {"prune_dst", "replace_dst"}
              /\ ~dst_tmp'.exists
       /\ (pc' = "tail" /\ pc \notin {"tail", "loop"}) =>
              /\ pc \in {"prune_src", "replace_src"}
              /\ ~src_tmp'.exists /\ ~dst_tmp'.exists
       /\ (pc = "tail" /\ pc' # "tail") =>
              ~src_tmp.exists /\ ~dst_tmp.exists
       /\ dst_lines' # dst_lines =>
              \/ DstReplaceStep /\ dst_lines' = dst_tmp.rows
              \/ /\ pc = "tail" /\ pc' = "sleep"
                 /\ Len(dst_lines') > Len(dst_lines)
                 /\ Prefix(dst_lines', Len(dst_lines)) = dst_lines]_vars

\* a cycle in which the destination prune removed the old line, the source
\* prune returned, and the tail pass then appended to the pruned file
C12_Witness ==
    /\ pc = "sleep"
    /\ last_cleanup_time = now
    /\ new_csv_line_count.ok
    /\ last_pass.ok /\ last_pass.emitted > 0
    /\ ~DstHoldsRemovable
    /\ Len(dst_lines) >= 3
    /\ dst_lines[1].id = 0 /\ dst_lines[2].id = 0 /\ dst_lines[3].id > 0

\* C13: a destination prune that fails (the file is missing, or the rewrite
\* raises) does not end the prune round: the source prune runs next, and a
\* source prune that then succeeds sets the cursor to the number of rows it
\* kept, whatever the destination prune did.
C13_DstFailureDoesNotStopRound ==
    [][/\ (pc \in {"prune_dst", "replace_dst"}
             /\ pc' \notin {"prune_dst", "replace_dst"}) => pc' = "prune_src"
       /\ (SrcPruneReturns /\ new_csv_line_count'.ok
             /\ (dst_state = "absent" \/ DstHoldsRemovable)) =>
              /\ processed_line_count' = new_csv_line_count'.count
              /\ processed_line_count' = Len(src_rows')
              /\ last_cleanup_time' = now]_vars

\* the destination prune of this round failed on a file that holds a line
\* it would have removed, and the source prune of the same round removed a
\* row and reset the cursor to the rows it kept
C13_Witness ==
    /\ pc = "tail"
    /\ last_cleanup_time = now
    /\ dst_state = "present" /\ DstHoldsRemovable
    /\ new_csv_line_count.ok
    /\ new_csv_line_count.count > 0
    /\ processed_line_count = new_csv_line_count.count
    /\ Len(src_rows) < next_id

\* the tail pass step that ends in the handler of lines 227-228
TailAborts == pc = "tail" /\ pc' = "sleep" /\ io_failures' # io_failures

\* C14 (as stated): a tail pass that is aborted by an error mutates no
\* state: the cursor and the lines of the destination file are the same
\* after the pass as before it, and the loop goes on to the sleep.
C14_AbortMutatesNothing ==
    [][TailAborts =>
           /\ processed_line_count' = processed_line_count
           /\ dst_lines' = dst_lines
           /\ pc' = "sleep"]_vars

\* C15: a tail pass that finds the source file missing writes nothing and
\* leaves the cursor and the destination file (its existence included) as
\* they were; the loop then sleeps one poll interval and starts the next
\* cycle.
C15_MissingSource ==
    [][/\ (pc = "tail" /\ pc' # "tail" /\ src_state = "absent") =>
              /\ dst_state' = dst_state
              /\ dst_lines' = dst_lines
              /\ processed_line_count' = processed_line_count
              /\ converted' = converted
              /\ pc' = "sleep"
       /\ (pc = "sleep" /\ pc' # "sleep") =>
              pc' = "loop" /\ now' = now + interval]_vars

\* a later cycle's tail pass has found the source file still missing
C15_Witness ==
    /\ pc = "sleep"
    /\ src_state = "absent"
    /\ now > InitialTime
    /\ ~last_pass.ran
    /\ processed_line_count = 0

\* lines of the destination file that a tail pass of this process wrote
WrittenLines == {j \in 1..Len(dst_lines) : dst_lines[j].id > 0}

\* C16: every line of the destination file written by this process has a
\* timestamp that ends in Z and an fps field that is a number or null,
\* never text; and a completed tail pass writes, for every row it read that
\* has a usable timestamp, one line, with fps null when the row's fps is the
\* text "abc", and counts that row in the cursor.
C16_LineShape ==
    [][/\ \A j \in WrittenLines :
              /\ dst_lines[j].json
              /\ dst_lines[j].ts.kind = "iso" /\ dst_lines[j].ts.zone = "Z"
              /\ dst_lines[j].fps \in {"30.0", "null"}
       /\ (TailReads /\ last_pass'.ok) =>
              /\ \A i \in (processed_line_count + 1)..Len(src_rows) :
                     Convertible(src_rows[i]) =>
                         \E j \in (Len(dst_lines) + 1)..Len(dst_lines') :
                             /\ dst_lines'[j].id = src_rows[i].id
                             /\ src_rows[i].fps = "abc" =>
                                    dst_lines'[j].fps = "null"
              /\ processed_line_count' - processed_line_count =
                     Cardinality({i \in (processed_line_count + 1)..Len(src_rows) :
                                     Convertible(src_rows[i])})]_vars

\* a completed pass has written the row whose fps is "abc" with fps null and
\* counted it
C16_Witness ==
    /\ pc = "sleep"
    /\ last_pass.ok /\ last_pass.emitted > 0
    /\ processed_line_count = last_pass.from + last_pass.emitted
    /\ \E i \in 1..Len(src_rows), j \in WrittenLines :
           /\ src_rows[i].fps = "abc"
           /\ dst_lines[j].id = src_rows[i].id
           /\ dst_lines[j].fps = "null"
           /\ dst_lines[j].ts.zone = "Z"

PruneStates == {"prune_dst", "replace_dst", "prune_src", "replace_src"}

\* C17: a prune round starts only when the horizon is > 0 and more than
\* cleanup_interval_seconds (6 hours) have passed since the previous round
\* returned; the timer is restarted by the return of the source prune,
\* failed or not, and by nothing else; with horizon 0 the loop never enters
\* a prune, no file is rewritten and only a tail pass changes the cursor.
C17_PruneTimer ==
    [][/\ (pc = "loop" /\ pc' \in PruneStates) =>
              /\ retention_days > 0
              /\ now - last_cleanup_time > cleanup_interval_seconds
       /\ SrcPruneReturns => last_cleanup_time' = now
       /\ last_cleanup_time' # last_cleanup_time => SrcPruneReturns
       /\ retention_days = 0 =>
              /\ pc' \notin PruneStates
              /\ ~src_tmp'.exists /\ ~dst_tmp'.exists
              /\ processed_line_count' # processed_line_count =>
                     pc = "tail" /\ pc' = "sleep"]_vars

\* a second prune round starts, 9 hours after a round whose source prune
\* failed
C17_Witness ==
    /\ pc = "prune_dst"
    /\ retention_days > 0
    /\ last_cleanup_time = InitialTime
    /\ now - last_cleanup_time > cleanup_interval_seconds
    /\ ~new_csv_line_count.ok

\* C18: in a prune round only the value the source prune returns can change
\* the cursor: no step of the destination prune changes the cursor or the
\* source prune's result, whatever the destination prune kept or however it
\* failed; a cursor change inside a round is the assignment of the source
\* prune's kept count; a failed source prune leaves the cursor alone.
C18_OnlySourcePruneSetsCursor ==
    [][/\ (pc \in {"prune_dst", "replace_dst"} /\ pc' # pc) =>
              /\ processed_line_count' = processed_line_count
              /\ new_csv_line_count' = new_csv_line_count
       /\ (pc \in PruneStates /\ processed_line_count' # processed_line_count) =>
              /\ SrcPruneReturns
              /\ new_csv_line_count'.ok
              /\ processed_line_count' = new_csv_line_count'.count
       /\ (SrcPruneReturns /\ ~new_csv_line_count'.ok) =>
              processed_line_count' = processed_line_count]_vars

\* the destination prune of the first round has kept two of the three
\* lines of the file, and the cursor is still 0
C18_Witness ==
    /\ pc = "prune_src"
    /\ last_cleanup_time = 0
    /\ dst_state = "present"
    /\ Len(dst_lines) = 2
    /\ ~DstHoldsRemovable
    /\ processed_line_count = 0

\* C19: the source prune of a file without header returns kept count 0, a
\* value that is not the failure marker; the file is left as it is, no
\* temporary file remains, and the loop sets the cursor to 0 and goes on to
\* the tail pass.
C19_HeaderlessPrune ==
    [][(pc = "prune_src" /\ pc' # pc /\ src_state = "empty") =>
           /\ new_csv_line_count' = [ok |-> TRUE, count |-> 0]
           /\ new_csv_line_count' # NoResult
           /\ processed_line_count' = 0
           /\ src_state' = "empty" /\ src_rows' = src_rows
           /\ ~src_tmp'.exists
           /\ last_cleanup_time' = now
           /\ pc' = "tail"]_vars

\* a prune round has just pruned a source file without header
C19_Witness ==
    /\ pc = "tail"
    /\ src_state = "empty"
    /\ last_cleanup_time = now
    /\ new_csv_line_count = [ok |-> TRUE, count |-> 0]
    /\ processed_line_count = 0
    /\ ~src_tmp.exists

\* C20 (as stated): while the writer appends at any time, the source file
\* holds at every moment the complete original (with the rows appended
\* since) or the complete pruned table, and every row the writer appended
\* between the end of the prune's read and the replace, and that the
\* horizon keeps, is in the source file after the replace.
C20_AppendedRowsSurvive ==
    [][/\ src_rows' # src_rows =>
              \/ Len(src_rows') = Len(src_rows) + 1
                   /\ Prefix(src_rows', Len(src_rows)) = src_rows
              \/ SrcReplaceStep /\ src_rows' = CsvKeptRows(prune_orig)
       /\ (SrcReplaceStep /\ new_csv_line_count'.ok) =>
              \A i \in (Len(prune_orig) + 1)..Len(src_rows) :
                  KeepCsvRow(src_rows[i]) => src_rows[i] \in Range(src_rows')]_vars
====
